---------------------------- MODULE Spec2Model ----------------------------
(***************************************************************************)
(* A model of the code-search script: readCodeFiles, generateEmbeddings,   *)
(* storeCodeInVectorDB, searchCode and main.  The script is one chain of   *)
(* awaits; a state of the model is the script suspended at one await, and  *)
(* an action is the answer of the awaited call followed by all the code    *)
(* that runs until the next await (or until main ends).  The filesystem,   *)
(* the embedding endpoint and the vector database are the environment:     *)
(* their answers are chosen from bounded sets.                             *)
(***************************************************************************)
EXTENDS Naturals, Sequences, FiniteSets

(***************************************************************************)
(* Bounds of the model.                                                    *)
(***************************************************************************)
MaxFiles == 2
MaxLen == 3
PipeFiles == 2
PipeLen == 3
MaxHits == 2
MaxDist == 1
MaxDim == 2

(***************************************************************************)
(* Text.  A string is a sequence of characters, and a character is a       *)
(* one-character string; a character that cannot be written in a string    *)
(* of this language is written by its code point, as "U+2028".             *)
(***************************************************************************)
NL == "\n"

\* The line terminators of ECMAScript: LF, CR, LS, PS.
LineTerminators == {NL, "\r", "U+2028", "U+2029"}

\* The space separators (Unicode category Zs) other than SP, NBSP and
\* U+1680.
SpaceSeparators ==
  {"U+2000", "U+2001", "U+2002", "U+2003", "U+2004", "U+2005", "U+2006",
   "U+2007", "U+2008", "U+2009", "U+200A", "U+202F", "U+205F", "U+3000"}

\* What String.prototype.trim removes: the white space of ECMAScript (TAB,
\* VT, FF, SP, NBSP, ZWNBSP and the space separators) and its line
\* terminators.  VT, NBSP, ZWNBSP and U+1680 are given both as the character
\* itself and by code point.
WhiteSpace ==
  {"\t", "\f", " ", "", " ", "﻿", " ",
   "U+000B", "U+00A0", "U+FEFF", "U+1680"}
    \cup SpaceSeparators \cup LineTerminators

\* The sequences of exactly n, and of at most n, elements of S.
RECURSIVE Tuples(_, _)
Tuples(S, n) ==
  IF n = 0 THEN {<<>>} ELSE {Append(q, e) : q \in Tuples(S, n - 1), e \in S}

Seqs(S, n) == UNION {Tuples(S, j) : j \in 0..n}

Str(n, alphabet) == Seqs(alphabet, n)

RECURSIVE Concat(_)
Concat(ss) == IF ss = <<>> THEN <<>> ELSE Head(ss) \o Concat(Tail(ss))

\* <<f(1), ..., f(n)>>, and Array.prototype.map
RECURSIVE Tab(_, _)
Tab(f(_), n) == IF n = 0 THEN <<>> ELSE Append(Tab(f, n - 1), f(n))

Map(f(_), s) == Tab(LAMBDA i : f(s[i]), Len(s))

\* String.prototype.endsWith
EndsWith(s, suffix) ==
  /\ Len(s) >= Len(suffix)
  /\ SubSeq(s, Len(s) - Len(suffix) + 1, Len(s)) = suffix

\* String.prototype.split('\n'): the pieces between newlines, empty ones kept.
RECURSIVE Split(_)
Split(s) ==
  IF \A i \in 1..Len(s) : s[i] # NL
    THEN <<s>>
    ELSE LET p == CHOOSE i \in 1..Len(s) :
                    s[i] = NL /\ \A j \in 1..(i - 1) : s[j] # NL
         IN <<SubSeq(s, 1, p - 1)>> \o Split(SubSeq(s, p + 1, Len(s)))

\* String.prototype.trim: white space removed from both ends.
Trim(s) ==
  LET keep == {i \in 1..Len(s) : s[i] \notin WhiteSpace}
  IN IF keep = {} THEN <<>>
     ELSE LET lo == CHOOSE i \in keep : \A j \in keep : i <= j
              hi == CHOOSE i \in keep : \A j \in keep : j <= i
          IN SubSeq(s, lo, hi)

(***************************************************************************)
(* readCodeFiles: the extension filter and the line records of one file.   *)
(***************************************************************************)
ExtJs == <<".", "j", "s">>
ExtPy == <<".", "p", "y">>
ExtTxt == <<".", "t", "x", "t">>

\* file.endsWith(...), tested without the dot of the extension
AcceptedNoDot(file) ==
  \/ EndsWith(file, Tail(ExtJs))
  \/ EndsWith(file, Tail(ExtPy))
  \/ EndsWith(file, Tail(ExtTxt))
\* file.endsWith('.js') || file.endsWith('.py') || file.endsWith('.txt')
Accepted(file) ==
  \/ EndsWith(file, ExtJs)
  \/ EndsWith(file, ExtPy)
  \/ EndsWith(file, ExtTxt)

LineRecord(content, file, lineNumber) ==
  [content |-> content, file |-> file, lineNumber |-> lineNumber]

\* content.split('\n').map(...).filter(line => line.content), numbered after
\* the filter instead of before it.
FileLinesRenumbered(file, content) ==
  LET kept == SelectSeq(Map(Trim, Split(content)), LAMBDA l : l # <<>>)
  IN Tab(LAMBDA i : LineRecord(kept[i], file, i), Len(kept))
FileLines(file, content) ==
  LET parts == Split(content)
      lines == Tab(LAMBDA i : LineRecord(Trim(parts[i]), file, i), Len(parts))
  IN SelectSeq(lines, LAMBDA line : line.content # <<>>)


(***************************************************************************)
(* JavaScript values as the code meets them in a response body: a number   *)
(* (in n), a boolean (n is 1 for true), a string (its characters in s), an *)
(* array (its elements in a), an object, null and undefined.  Of an object *)
(* the code reads the properties `embeddings` and "0": a holds the value   *)
(* of the first and o the value of the second, each empty when the         *)
(* property is absent.  JThrow stands for a TypeError raised by an         *)
(* expression.                                                             *)
(***************************************************************************)
JNum(n) == [a |-> <<>>, n |-> n, o |-> <<>>, s |-> <<>>, t |-> "num"]
JBool(b) == [a |-> <<>>, n |-> IF b THEN 1 ELSE 0, o |-> <<>>, s |-> <<>>, t |-> "bool"]
JStr(s) == [a |-> <<>>, n |-> 0, o |-> <<>>, s |-> s, t |-> "str"]
JArr(elems) == [a |-> elems, n |-> 0, o |-> <<>>, s |-> <<>>, t |-> "arr"]
\* {embeddings: embeddings}; {"0": zero}; {embeddings: embeddings, "0": zero}; {}
JObj(embeddings) == [a |-> <<embeddings>>, n |-> 0, o |-> <<>>, s |-> <<>>, t |-> "obj"]
JObjZero(zero) == [a |-> <<>>, n |-> 0, o |-> <<zero>>, s |-> <<>>, t |-> "obj"]
JObjBoth(embeddings, zero) ==
  [a |-> <<embeddings>>, n |-> 0, o |-> <<zero>>, s |-> <<>>, t |-> "obj"]
JObjOther == [a |-> <<>>, n |-> 0, o |-> <<>>, s |-> <<>>, t |-> "obj"]
JNull == [a |-> <<>>, n |-> 0, o |-> <<>>, s |-> <<>>, t |-> "null"]
JUndef == [a |-> <<>>, n |-> 0, o |-> <<>>, s |-> <<>>, t |-> "undef"]
JThrow == [a |-> <<>>, n |-> 0, o |-> <<>>, s |-> <<>>, t |-> "throw"]

IsArray(x) == x.t = "arr"
Nullish(x) == x.t \in {"null", "undef"}

\* x[0]
Elem0(x) ==
  IF Nullish(x) THEN JThrow
  ELSE IF IsArray(x) /\ Len(x.a) > 0 THEN x.a[1]
  ELSE IF x.t = "str" /\ Len(x.s) > 0 THEN JStr(<<x.s[1]>>)
  ELSE IF x.t = "obj" /\ Len(x.o) > 0 THEN x.o[1]
  ELSE JUndef

\* x.embeddings
EmbeddingsOf(x) ==
  IF Nullish(x) THEN JThrow
  ELSE IF x.t = "obj" /\ Len(x.a) > 0 THEN x.a[1]
  ELSE JUndef

\* generateEmbeddings: Array.isArray(data) ? data[0] : data.embeddings[0]
Extract(data) ==
  IF IsArray(data) THEN Elem0(data)
  ELSE IF EmbeddingsOf(data) = JThrow THEN JThrow
  ELSE Elem0(EmbeddingsOf(data))

\* The flattening of one embedding with a single level unwrapped,
\*   Array.isArray(e[0]) ? e[0] : e
FlatStoreOneLevel(e) ==
  IF Elem0(e) = JThrow THEN JThrow
  ELSE IF IsArray(Elem0(e)) THEN Elem0(e)
  ELSE e
\* storeCodeInVectorDB: the flattening of one embedding,
\*   Array.isArray(e[0]) && Array.isArray(e[0][0]) ? e[0][0]
\*     : Array.isArray(e[0]) ? e[0] : e
FlatStore(e) ==
  IF Elem0(e) = JThrow THEN JThrow
  ELSE IF IsArray(Elem0(e)) /\ IsArray(Elem0(Elem0(e))) THEN Elem0(Elem0(e))
  ELSE IF IsArray(Elem0(e)) THEN Elem0(e)
  ELSE e

\* searchCode: the flattening of queryEmbeddingArr[0]
FlatQuery(arr) ==
  LET q == Elem0(JArr(arr))
  IN IF Elem0(q) = JThrow THEN JThrow
     ELSE IF IsArray(Elem0(q)) /\ IsArray(Elem0(Elem0(q))) THEN Elem0(Elem0(q))
     ELSE IF IsArray(Elem0(q)) THEN Elem0(q)
     ELSE q

(***************************************************************************)
(* The answers of the embedding endpoint.  vec is the vector the endpoint  *)
(* computed and shape the encoding it chose for the body; both are kept    *)
(* beside the body so that the properties can speak of them.               *)
(***************************************************************************)
Vectors(dim) == Seqs(1..2, dim) \ {<<>>}

JVec(v) == JArr(Map(JNum, v))

Nest(x, depth) ==
  IF depth = 0 THEN x
  ELSE IF depth = 1 THEN JArr(<<x>>)
  ELSE JArr(<<JArr(<<x>>)>>)

\* "bare": [v]; "object": {embeddings: [v]}; "nested": [[v]] and [[[v]]], bare
\* or under `embeddings`; "string": {embeddings: "ab"}; "zero": [{"0": v}];
\* "objzero": {embeddings: {"0": v}}; "bool": [true].
Body(shape, v) ==
  CASE shape = "bare" -> JArr(<<JVec(v)>>)
    [] shape = "object" -> JObj(JArr(<<JVec(v)>>))
    [] shape = "nested1" -> JArr(<<Nest(JVec(v), 1)>>)
    [] shape = "nested2" -> JArr(<<Nest(JVec(v), 2)>>)
    [] shape = "objnested1" -> JObj(JArr(<<Nest(JVec(v), 1)>>))
    [] shape = "objnested2" -> JObj(JArr(<<Nest(JVec(v), 2)>>))
    [] shape = "empty" -> JArr(<<>>)
    [] shape = "noembeddings" -> JObjOther
    [] shape = "null" -> JNull
    [] shape = "flat" -> JVec(v)
    [] shape = "string" -> JObj(JStr(<<"a", "b">>))
    [] shape = "zero" -> JArr(<<JObjZero(JVec(v))>>)
    [] shape = "objzero" -> JObj(JObjZero(JVec(v)))
    [] shape = "bool" -> JArr(<<JBool(TRUE)>>)

DocumentedShapes ==
  {"bare", "object", "nested1", "nested2", "objnested1", "objnested2"}
OtherShapes ==
  {"empty", "noembeddings", "null", "flat", "string", "zero", "objzero", "bool"}
VecShapes == DocumentedShapes \cup {"flat", "zero", "objzero"}

NoVec == <<>>

Response(kind, shape, v) ==
  [data |-> IF kind = "ok" THEN Body(shape, v) ELSE JUndef,
   kind |-> kind, shape |-> shape,
   vec |-> IF shape \in VecShapes THEN v ELSE NoVec]

Pending == Response("pending", "none", NoVec)

\* What `await fetch(...)` settles with: a rejection, a response whose status
\* is not 2xx, a response whose status is.
Heads == {"network", "status", "ok"}

\* The response is there and its body is awaited.
Headers == Response("headers", "none", NoVec)

\* response.json() rejects
JsonFailure == Response("badjson", "none", NoVec)

\* What `await response.json()` settles with.
Answers(shapes, vs) ==
  {Response("ok", sh, v) : sh \in shapes, v \in vs} \cup {JsonFailure}

(***************************************************************************)
(* The answers of the vector database to collection.query: the three       *)
(* parallel arrays of the one query vector (results.metadatas[0],          *)
(* results.documents[0], results.distances[0]), each of which may be       *)
(* missing, and a metadata entry may be null.                              *)
(***************************************************************************)
Field(present, items) == [items |-> items, present |-> present]
Missing == Field(FALSE, <<>>)

Meta(file, lineNumber) == [file |-> file, lineNumber |-> lineNumber, null |-> FALSE]
NullMeta == [file |-> <<>>, lineNumber |-> 0, null |-> TRUE]

QueryResult(kind, metadatas, documents, distances) ==
  [distances |-> distances, documents |-> documents, kind |-> kind,
   metadatas |-> metadatas]

QueryFailure == QueryResult("error", Missing, Missing, Missing)
NoResult == QueryResult("pending", Missing, Missing, Missing)


(***************************************************************************)
(* Program constants.                                                      *)
(***************************************************************************)
MAX_RESULTS == 5
\* the sample query of main, 'function factorial'
Query == <<"f", "n">>

(***************************************************************************)
(* State.                                                                  *)
(*   fs          the directory CODE_DIR: whether readdir succeeds, and its *)
(*               entries (name, whether readFile succeeds, content)        *)
(*   db          the vector database: whether the collection exists,       *)
(*               whether this run created it, and the rows added to it     *)
(*   pc          the await the script is suspended at                      *)
(*   calls       every external call issued so far, in order               *)
(*   inflight    the calls (indices of calls) not answered yet             *)
(*   files, fileIdx, rcfData     readCodeFiles: files, loop position,      *)
(*               its codeData                                              *)
(*   readLog     the names given to fs.readFile so far                     *)
(*   codeData, texts, embeddings    storeCodeInVectorDB's locals           *)
(*   inputs, k, acc, caller      generateEmbeddings: its parameter texts,  *)
(*               loop position, its embeddings, and who awaits it          *)
(*   reqLog      the embedding requests so far, each with its answer       *)
(*   addCalls    the arguments of every collection.add call                *)
(*   mismatch    whether the Mismatched lengths error was raised           *)
(*   queryEmbeddingArr   searchCode's local                                *)
(*   queryCalls  the arguments of every collection.query call, each with   *)
(*               its answer                                                *)
(*   readOutcome, storeOutcome, searchOutcome, mainOutcome    how          *)
(*               readCodeFiles, storeCodeInVectorDB, searchCode and main   *)
(*               ended                                                     *)
(*   matches     what searchCode returned to main                          *)
(***************************************************************************)
VARIABLES fs, db, pc, calls, inflight, files, fileIdx, rcfData, readLog,
          codeData, texts, embeddings, inputs, k, acc, caller, reqLog,
          addCalls, mismatch, queryEmbeddingArr, queryCalls, readOutcome,
          storeOutcome, searchOutcome, mainOutcome, matches

vars == <<fs, db, pc, calls, inflight, files, fileIdx, rcfData, readLog,
          codeData, texts, embeddings, inputs, k, acc, caller, reqLog,
          addCalls, mismatch, queryEmbeddingArr, queryCalls, readOutcome,
          storeOutcome, searchOutcome, mainOutcome, matches>>

\* The current state as one value, so that the handlers below can be written
\* as functions from state to state and chained the way the calls chain.
Cur ==
  [fs |-> fs, db |-> db, pc |-> pc, calls |-> calls, inflight |-> inflight,
   files |-> files, fileIdx |-> fileIdx, rcfData |-> rcfData,
   readLog |-> readLog, codeData |-> codeData, texts |-> texts,
   embeddings |-> embeddings, inputs |-> inputs, k |-> k, acc |-> acc,
   caller |-> caller, reqLog |-> reqLog, addCalls |-> addCalls,
   mismatch |-> mismatch, queryEmbeddingArr |-> queryEmbeddingArr,
   queryCalls |-> queryCalls, readOutcome |-> readOutcome,
   storeOutcome |-> storeOutcome, searchOutcome |-> searchOutcome,
   mainOutcome |-> mainOutcome, matches |-> matches]

Becomes(s) ==
  /\ fs' = s.fs /\ db' = s.db /\ pc' = s.pc /\ calls' = s.calls
  /\ inflight' = s.inflight /\ files' = s.files /\ fileIdx' = s.fileIdx
  /\ rcfData' = s.rcfData /\ readLog' = s.readLog /\ codeData' = s.codeData
  /\ texts' = s.texts /\ embeddings' = s.embeddings /\ inputs' = s.inputs
  /\ k' = s.k /\ acc' = s.acc /\ caller' = s.caller /\ reqLog' = s.reqLog
  /\ addCalls' = s.addCalls /\ mismatch' = s.mismatch
  /\ queryEmbeddingArr' = s.queryEmbeddingArr
  /\ queryCalls' = s.queryCalls /\ readOutcome' = s.readOutcome
  /\ storeOutcome' = s.storeOutcome
  /\ searchOutcome' = s.searchOutcome /\ mainOutcome' = s.mainOutcome
  /\ matches' = s.matches

\* `await op(...)`: the call is issued and the script suspends on it.
Await(s, kind, op, by) ==
  [s EXCEPT !.calls = Append(@, [by |-> by, kind |-> kind, op |-> op]),
            !.inflight = @ \cup {Len(s.calls) + 1},
            !.pc = op]

\* The awaited call (the last one issued) has been answered.
Answered(s) == [s EXCEPT !.inflight = @ \ {Len(s.calls)}]

(***************************************************************************)
(* main, from the return of searchCode on: the display of the matches.     *)
(* match.distance.toFixed(3) raises a TypeError when a distance is         *)
(* undefined; main's promise is then rejected and main().catch logs it.    *)
(***************************************************************************)
Display(s) ==
  [s EXCEPT !.pc = "done",
            !.mainOutcome =
               IF Len(s.matches) = 0 THEN "nomatch"
               ELSE IF \E i \in 1..Len(s.matches) : s.matches[i].distance.t # "num"
                 THEN "rejected"
               ELSE "printed"]

(***************************************************************************)
(* searchCode.                                                             *)
(***************************************************************************)
\* `return matches`, or the catch block's `return []`
SearchReturn(s, result, outcome) ==
  Display([s EXCEPT !.matches = result, !.searchOutcome = outcome])

\* results.metadatas[0].map((metadata, index) => ({...})), with the distances
\* taken from the far end.
FormatReversed(res) ==
  LET n == Len(res.metadatas.items)
  IN Tab(LAMBDA i :
           [content |-> IF i <= Len(res.documents.items)
                          THEN JStr(res.documents.items[i]) ELSE JUndef,
            distance |-> IF n + 1 - i <= Len(res.distances.items)
                           THEN JNum(res.distances.items[n + 1 - i]) ELSE JUndef,
            file |-> res.metadatas.items[i].file,
            lineNumber |-> res.metadatas.items[i].lineNumber],
         n)
\* results.metadatas[0].map((metadata, index) => ({...}))
Format(res) ==
  Tab(LAMBDA i :
        [content |-> IF i <= Len(res.documents.items)
                       THEN JStr(res.documents.items[i]) ELSE JUndef,
         distance |-> IF i <= Len(res.distances.items)
                        THEN JNum(res.distances.items[i]) ELSE JUndef,
         file |-> res.metadatas.items[i].file,
         lineNumber |-> res.metadatas.items[i].lineNumber],
      Len(res.metadatas.items))

\* Whether the formatting raises a TypeError: results.metadatas[0] is not
\* there; or, with at least one entry to map, an entry is null or
\* results.documents[0] or results.distances[0] is not there.
FormatThrows(res) ==
  \/ ~res.metadatas.present
  \/ /\ Len(res.metadatas.items) > 0
     /\ \/ \E i \in 1..Len(res.metadatas.items) : res.metadatas.items[i].null
        \/ ~res.documents.present
        \/ ~res.distances.present

OnQuery(s, res) ==
  LET s1 == [Answered(s) EXCEPT !.queryCalls[Len(s.queryCalls)].result = res]
  IN IF res.kind = "error" THEN SearchReturn(s1, <<>>, "queryError")
     ELSE IF FormatThrows(res) THEN SearchReturn(s1, <<>>, "formatError")
     ELSE SearchReturn(s1, Format(res), "ok")

\* searchCode after `await client.getCollection(...)`, with the call outside
\* the try block: its failure rejects searchCode's promise, and main's.
OnGetCollectionOutsideTry(s, reachable) ==
  IF s.db.exists /\ reachable
    THEN Await([Answered(s) EXCEPT
                  !.queryCalls =
                     Append(@, [nResults |-> MAX_RESULTS,
                                queryEmbeddings |-> <<FlatQuery(s.queryEmbeddingArr)>>,
                                result |-> NoResult])],
               "db", "query", "search")
    ELSE [Answered(s) EXCEPT !.pc = "done", !.searchOutcome = "thrown",
                             !.mainOutcome = "rejected"]
\* searchCode after `await client.getCollection(...)`
OnGetCollection(s, reachable) ==
  IF s.db.exists /\ reachable
    THEN Await([Answered(s) EXCEPT
                  !.queryCalls =
                     Append(@, [nResults |-> MAX_RESULTS,
                                queryEmbeddings |-> <<FlatQuery(s.queryEmbeddingArr)>>,
                                result |-> NoResult])],
               "db", "query", "search")
    ELSE SearchReturn(Answered(s), <<>>, "noCollection")

\* searchCode after `await generateEmbeddings([query])`
SearchAfterEmbed(s) ==
  IF FlatQuery(s.queryEmbeddingArr) = JThrow
    THEN SearchReturn(s, <<>>, "shapeError")
    ELSE Await(s, "db", "getCollection", "search")


(***************************************************************************)
(* generateEmbeddings and storeCodeInVectorDB.  The two call each other's  *)
(* continuations: generateEmbeddings returns into storeCodeInVectorDB or   *)
(* searchCode, and storeCodeInVectorDB returns into main, which calls      *)
(* searchCode, which calls generateEmbeddings.                             *)
(***************************************************************************)
RECURSIVE EmbedLoop(_)

\* generateEmbeddings(texts): `const embeddings = []`, then the loop
EmbedStart(s, texts_, by) ==
  EmbedLoop([s EXCEPT !.inputs = texts_, !.k = 1, !.acc = <<>>, !.caller = by])

\* main after `await storeCodeInVectorDB()`: searchCode(query), whose first
\* statement awaits generateEmbeddings([query])
StoreReturn(s, outcome) ==
  EmbedStart([s EXCEPT !.storeOutcome = outcome], <<Query>>, "search")

\* codeData.map((_, index) => `line_${index}`)
LineId(index) == [index |-> index, prefix |-> "line_"]
\* the ids numbered from 1 instead of 0
IdsFromOne(data) == Tab(LAMBDA i : LineId(i), Len(data))
Ids(data) == Tab(LAMBDA i : LineId(i - 1), Len(data))

Metadatas(data) ==
  Map(LAMBDA d : [file |-> d.file, lineNumber |-> d.lineNumber], data)

\* embeddings.flatMap(e => ...): the vectors' numbers, one after the other
FlatEmbeddingsFlatMap(embs) == Concat(Map(LAMBDA e : FlatStore(e).a, embs))
\* embeddings.map(e => ...)
FlatEmbeddings(embs) == Map(FlatStore, embs)

Mismatched(nIds, nEmbeddings, nTexts, nMetadatas) ==
  nIds # nEmbeddings \/ nIds # nTexts \/ nIds # nMetadatas

\* storeCodeInVectorDB after `await generateEmbeddings(texts)`
StoreAfterEmbed(s) ==
  IF \E i \in 1..Len(s.embeddings) : FlatStore(s.embeddings[i]) = JThrow
    THEN StoreReturn(s, "shapeError")
  ELSE IF Mismatched(Len(Ids(s.codeData)), Len(s.embeddings), Len(s.texts),
                     Len(Metadatas(s.codeData)))
    THEN StoreReturn([s EXCEPT !.mismatch = TRUE], "mismatch")
  ELSE Await([s EXCEPT !.addCalls =
                          Append(@, [documents |-> s.texts,
                                     embeddings |-> FlatEmbeddings(s.embeddings),
                                     ids |-> Ids(s.codeData),
                                     metadatas |-> Metadatas(s.codeData)])],
             "db", "add", "store")

\* `return embeddings`
EmbedReturn(s) ==
  IF s.caller = "store" THEN StoreAfterEmbed([s EXCEPT !.embeddings = s.acc])
  ELSE SearchAfterEmbed([s EXCEPT !.queryEmbeddingArr = s.acc])

\* the catch block's `throw error`, into the caller's catch block
EmbedThrow(s) ==
  IF s.caller = "store" THEN StoreReturn(s, "embeddingError")
  ELSE SearchReturn(s, <<>>, "embeddingError")

\* The loop, `for (const text of texts)`, with every request issued before
\* any answer is awaited.
EmbedLoopEager(s) ==
  IF s.k > Len(s.inputs) THEN EmbedReturn(s)
  ELSE IF s.k > 1 THEN [s EXCEPT !.pc = "fetch"]
  ELSE
  [s EXCEPT !.calls = @ \o Tab(LAMBDA i : [by |-> s.caller, kind |-> "embed",
                                            op |-> "fetch"],
                                Len(s.inputs) - s.k + 1),
            !.inflight = @ \cup (Len(s.calls) + 1)..(Len(s.calls) + Len(s.inputs) - s.k + 1),
            !.reqLog = @ \o Tab(LAMBDA i : [answer |-> Pending, by |-> s.caller,
                                             input |-> s.inputs[s.k + i - 1]],
                                 Len(s.inputs) - s.k + 1),
            !.pc = "fetch"]
EmbedLoop(s) ==
  IF s.k > Len(s.inputs) THEN EmbedReturn(s)
  ELSE Await([s EXCEPT !.reqLog = Append(@, [answer |-> Pending,
                                             by |-> s.caller,
                                             input |-> s.inputs[s.k]])],
             "embed", "fetch", s.caller)

\* The loop body after `await response.json()`
OnJson(s, r) ==
  LET s1 == [Answered(s) EXCEPT !.reqLog[Len(s.reqLog)].answer = r]
  IN IF r.kind # "ok" THEN EmbedThrow(s1)
     ELSE IF Extract(r.data) = JThrow THEN EmbedThrow(s1)
     ELSE EmbedLoop([s1 EXCEPT !.acc = Append(@, Extract(r.data)), !.k = @ + 1])

\* The loop body after `await fetch(...)`, with a failed request skipped.
OnFetchSkipFailed(s, head) ==
  IF head # "ok"
    THEN EmbedLoop([Answered(s) EXCEPT
                      !.reqLog[Len(s.reqLog)].answer = Response(head, "none", NoVec),
                      !.k = @ + 1])
    ELSE [s EXCEPT !.reqLog[Len(s.reqLog)].answer = Headers, !.pc = "json"]
\* The loop body after `await fetch(...)`: the test of response.ok, then
\* `await response.json()`, the request staying in flight for its body.
OnFetch(s, head) ==
  IF head # "ok"
    THEN EmbedThrow([Answered(s) EXCEPT
                       !.reqLog[Len(s.reqLog)].answer = Response(head, "none", NoVec)])
    ELSE [s EXCEPT !.reqLog[Len(s.reqLog)].answer = Headers, !.pc = "json"]

Rows(call) ==
  Tab(LAMBDA i : [document |-> call.documents[i], id |-> call.ids[i],
                  metadata |-> call.metadatas[i]],
      Len(call.ids))

OnAdd(s, ok) ==
  IF ok
    THEN StoreReturn([Answered(s) EXCEPT
                        !.db.rows = @ \o Rows(s.addCalls[Len(s.addCalls)])],
                     "stored")
    ELSE StoreReturn(Answered(s), "addError")

\* codeData.map(data => data.content)
Contents(data) == Map(LAMBDA d : d.content, data)

\* storeCodeInVectorDB after `await readCodeFiles(CODE_DIR)`
StoreAfterRead(s) ==
  IF Len(s.codeData) = 0 THEN StoreReturn(s, "nofiles")
  ELSE EmbedStart([s EXCEPT !.texts = Contents(s.codeData)],
                  Contents(s.codeData), "store")

(***************************************************************************)
(* readCodeFiles.                                                          *)
(***************************************************************************)
\* `return codeData`, or the catch block's `return []`
ReadReturn(s, result, outcome) ==
  StoreAfterRead([s EXCEPT !.codeData = result, !.readOutcome = outcome])

\* The loop over files from position i: entries that fail the extension
\* test are passed over, the first that passes is read.
ReadLoop(s, i) ==
  LET rest == {j \in i..Len(s.files) : Accepted(s.files[j])}
  IN IF rest = {}
       THEN ReadReturn([s EXCEPT !.fileIdx = Len(s.files) + 1], s.rcfData, "ok")
     ELSE LET j == CHOOSE x \in rest : \A y \in rest : x <= y
          IN Await([s EXCEPT !.fileIdx = j, !.readLog = Append(@, s.files[j])],
                   "fs", "readFile", "readCodeFiles")

\* The loop body after `await fs.readFile(...)`, with the catch block
\* returning what was read so far.
OnReadFileKeepsPartial(s) ==
  LET entry == s.fs.entries[s.fileIdx]
  IN IF entry.readable
       THEN ReadLoop([Answered(s) EXCEPT
                        !.rcfData = @ \o FileLines(entry.name, entry.content)],
                     s.fileIdx + 1)
       ELSE ReadReturn(Answered(s), s.rcfData, "error")
OnReadFile(s) ==
  LET entry == s.fs.entries[s.fileIdx]
  IN IF entry.readable
       THEN ReadLoop([Answered(s) EXCEPT
                        !.rcfData = @ \o FileLines(entry.name, entry.content)],
                     s.fileIdx + 1)
       ELSE ReadReturn(Answered(s), <<>>, "error")

OnReaddir(s) ==
  IF s.fs.ok
    THEN ReadLoop([Answered(s) EXCEPT
                     !.files = Map(LAMBDA e : e.name, s.fs.entries),
                     !.rcfData = <<>>],
                  1)
    ELSE ReadReturn(Answered(s), <<>>, "error")

\* storeCodeInVectorDB after `await client.getOrCreateCollection(...)`
OnGetOrCreateCollection(s, ok) ==
  IF ok THEN Await([Answered(s) EXCEPT !.db.exists = TRUE,
                                       !.db.created = ~s.db.exists],
                   "fs", "readdir", "readCodeFiles")
  ELSE StoreReturn(Answered(s), "dbError")

\* main up to its first await, inside storeCodeInVectorDB
MainStart(s) == Await(s, "db", "getOrCreateCollection", "store")


(***************************************************************************)
(* The directories, answers and query results the specifications draw.     *)
(***************************************************************************)
NameJs == <<"a", ".", "j", "s">>
NamePy == <<"b", ".", "p", "y">>
NameTxt == <<"c", ".", "t", "x", "t">>
NameMd == <<"d", ".", "m", "d">>
NameBare == <<"j", "s">>

Entry(name, readable, content) ==
  [content |-> content, name |-> name, readable |-> readable]

\* The entries a name may stand for with len characters of content: a code
\* file with any content of that length, or (counted as empty) one that
\* cannot be read (a directory, a permission error); any other name is given
\* one fixed content.
Entries(name, codeNames, alphabet, len) ==
  IF name \in codeNames
    THEN {Entry(name, TRUE, c) : c \in Tuples(alphabet, len)}
           \cup (IF len = 0 THEN {Entry(name, FALSE, <<>>)} ELSE {})
    ELSE IF len = 1 THEN {Entry(name, TRUE, <<"a">>)} ELSE {}

\* Lists of at most n entries with distinct names drawn from names, holding
\* at most budget characters in all.
RECURSIVE EntryLists(_, _, _, _, _)
EntryLists(names, codeNames, alphabet, n, budget) ==
  IF n = 0 THEN {<<>>}
  ELSE {<<>>} \cup
       UNION {{<<e>> \o rest :
                 e \in Entries(nl[1], codeNames, alphabet, nl[2]),
                 rest \in EntryLists(names \ {nl[1]}, codeNames, alphabet, n - 1,
                                     budget - nl[2])} :
              nl \in names \X (0..budget)}

\* Directories of at most maxFiles entries with distinct names, holding at
\* most maxLen characters in all; and the directory that cannot be read.
Dirs(names, codeNames, alphabet, maxFiles, maxLen) ==
  {[entries |-> es, ok |-> TRUE] :
     es \in EntryLists(names, codeNames, alphabet, maxFiles, maxLen)}
    \cup {[entries |-> <<>>, ok |-> FALSE]}

CodeNames == {NameJs, NamePy, NameTxt}

\* The directories of one readable file with at most maxLen characters.
OneFileDirs(name, alphabet, maxLen) ==
  {[entries |-> <<Entry(name, TRUE, c)>>, ok |-> TRUE] : c \in Str(maxLen, alphabet)}

\* Directories of several files in letters, spaces and newlines; and
\* directories of one file in which there are also a carriage return, a form
\* feed and a line separator.
ExtractDirs ==
  Dirs(CodeNames \cup {NameMd, NameBare}, CodeNames, {"a", " ", NL}, MaxFiles, MaxLen)
    \cup OneFileDirs(NameJs, {"a", "\r", "\f", "U+2028", NL}, MaxLen)

PipeDirs == Dirs({NameJs, NamePy}, CodeNames, {"a", NL}, PipeFiles, PipeLen)

OneLineDirs == {[entries |-> <<Entry(NameJs, TRUE, <<"a">>)>>, ok |-> TRUE]}

PipeBodies == Answers({"bare", "nested1", "empty"}, {<<1, 2>>, <<2, 1>>})

AllBodies == Answers(DocumentedShapes \cup OtherShapes, Vectors(MaxDim))

OkResult(metas, docs, dists) ==
  QueryResult("ok", Field(TRUE, metas), Field(TRUE, docs), Field(TRUE, dists))

PipeResults ==
  {QueryFailure,
   OkResult(<<>>, <<>>, <<>>),
   OkResult(<<Meta(NameJs, 1)>>, <<<<"a">>>>, <<0>>),
   QueryResult("ok", Field(TRUE, <<Meta(NameJs, 1)>>), Missing, Missing)}

AllResults ==
  LET metas == {Meta(NameJs, 1), Meta(NamePy, 2), NullMeta}
      docs == {<<"a">>, <<"b">>}
      fields(S) == {Missing} \cup {Field(TRUE, q) : q \in Seqs(S, MaxHits)}
  IN {QueryFailure}
       \cup {QueryResult("ok", m, d, x) :
               m \in fields(metas), d \in fields(docs), x \in fields(0..MaxDist)}

(***************************************************************************)
(* Actions: one per await of the script, taken when the awaited call is    *)
(* answered.  The answer of the filesystem is fixed by fs; the answers of  *)
(* the database and of the embedding endpoint are chosen here.  Json and   *)
(* QueryCollection draw the answer from the small sets, JsonAny and        *)
(* QueryCollectionAny from the large ones.                                 *)
(***************************************************************************)
Main == pc = "main" /\ Becomes(MainStart(Cur))

GetOrCreateCollection ==
  /\ pc = "getOrCreateCollection"
  /\ \E ok \in BOOLEAN : Becomes(OnGetOrCreateCollection(Cur, ok))

Readdir == pc = "readdir" /\ Becomes(OnReaddir(Cur))

ReadFile == pc = "readFile" /\ Becomes(OnReadFile(Cur))

Fetch ==
  /\ pc = "fetch"
  /\ \E head \in Heads : Becomes(OnFetch(Cur, head))

Json ==
  /\ pc = "json"
  /\ \E r \in PipeBodies : Becomes(OnJson(Cur, r))

JsonAny ==
  /\ pc = "json"
  /\ \E r \in AllBodies : Becomes(OnJson(Cur, r))

Add ==
  /\ pc = "add"
  /\ \E ok \in BOOLEAN : Becomes(OnAdd(Cur, ok))

GetCollection ==
  /\ pc = "getCollection"
  /\ \E reachable \in BOOLEAN : Becomes(OnGetCollection(Cur, reachable))

QueryCollection ==
  /\ pc = "query"
  /\ \E res \in PipeResults : Becomes(OnQuery(Cur, res))

QueryCollectionAny ==
  /\ pc = "query"
  /\ \E res \in AllResults : Becomes(OnQuery(Cur, res))

(***************************************************************************)
(* Specifications.                                                         *)
(***************************************************************************)
Init(dirs) ==
  /\ fs \in dirs
  /\ db \in {[created |-> FALSE, exists |-> e, rows |-> <<>>] : e \in BOOLEAN}
  /\ pc = "main"
  /\ calls = <<>> /\ inflight = {}
  /\ files = <<>> /\ fileIdx = 0 /\ rcfData = <<>> /\ readLog = <<>>
  /\ codeData = <<>> /\ texts = <<>> /\ embeddings = <<>>
  /\ inputs = <<>> /\ k = 0 /\ acc = <<>> /\ caller = "none"
  /\ reqLog = <<>> /\ addCalls = <<>> /\ mismatch = FALSE
  /\ queryEmbeddingArr = <<>> /\ queryCalls = <<>>
  /\ readOutcome = "none" /\ storeOutcome = "none"
  /\ searchOutcome = "none" /\ mainOutcome = "none"
  /\ matches = <<>>

\* The whole run of main, over small directories.
PipeInit == Init(PipeDirs)
PipeNext ==
  \/ Main
  \/ GetOrCreateCollection
  \/ Readdir
  \/ ReadFile
  \/ Fetch
  \/ Json
  \/ Add
  \/ GetCollection
  \/ QueryCollection
Spec == PipeInit /\ [][PipeNext]_vars

\* readCodeFiles over every directory within the bounds: the run of main up
\* to the return of readCodeFiles.
ExtractInit == Init(ExtractDirs)
ExtractNext == Main \/ GetOrCreateCollection \/ Readdir \/ ReadFile
SpecExtract == ExtractInit /\ [][ExtractNext]_vars

\* The whole run of main over a one-line directory, with every answer of the
\* embedding endpoint.
NormInit == Init(OneLineDirs)
NormNext ==
  \/ Main
  \/ GetOrCreateCollection
  \/ Readdir
  \/ ReadFile
  \/ Fetch
  \/ JsonAny
  \/ Add
  \/ GetCollection
  \/ QueryCollection
SpecNorm == NormInit /\ [][NormNext]_vars

\* The whole run of main over a one-line directory, with every result of
\* collection.query.
QueryInit == Init(OneLineDirs)
QueryNext ==
  \/ Main
  \/ GetOrCreateCollection
  \/ Readdir
  \/ ReadFile
  \/ Fetch
  \/ Json
  \/ Add
  \/ GetCollection
  \/ QueryCollectionAny
SpecQuery == QueryInit /\ [][QueryNext]_vars

(***************************************************************************)
(* Properties.  They are stated over what a run leaves behind: the         *)
(* directory it was given, the calls and requests it made with their       *)
(* answers, and what each function returned.  What a file's text or a      *)
(* name says is read off its characters here, without the program's own    *)
(* split, trim and endsWith.                                               *)
(***************************************************************************)
\* The line a character is on: one more than the newlines before it.
LineOfChar(c, i) == 1 + Cardinality({p \in 1..(i - 1) : c[p] = NL})

\* The positions of the characters of line n that are not white space.
Ink(c, n) == {i \in 1..Len(c) : c[i] \notin WhiteSpace /\ LineOfChar(c, i) = n}

\* The lines that hold a character other than white space.
InkedLines(c) == {n \in 1..(Len(c) + 1) : Ink(c, n) # {}}

\* Line n from its first to its last character that is not white space.
InkOfLine(c, n) ==
  LET lo == CHOOSE i \in Ink(c, n) : \A j \in Ink(c, n) : i <= j
      hi == CHOOSE i \in Ink(c, n) : \A j \in Ink(c, n) : j <= i
  IN SubSeq(c, lo, hi)

HasCodeExtension(name) ==
  \E ext \in {ExtJs, ExtPy, ExtTxt} :
    /\ Len(name) >= Len(ext)
    /\ \A i \in 1..Len(ext) : name[Len(name) - Len(ext) + i] = ext[i]

RecordsOf(name) == SelectSeq(codeData, LAMBDA r : r.file = name)

EntryPos(name) == CHOOSE i \in 1..Len(fs.entries) : fs.entries[i].name = name

NoCodeFiles == \A i \in 1..Len(fs.entries) : ~HasCodeExtension(fs.entries[i].name)

Called(op) == \E i \in 1..Len(calls) : calls[i].op = op

\* The requests of one caller of generateEmbeddings, oldest first.
RequestsBy(by) == SelectSeq(reqLog, LAMBDA r : r.by = by)

Documented(r) == r.kind = "ok" /\ r.shape \in DocumentedShapes

\* C1: when readCodeFiles returns what it read, every entry with an accepted
\* extension has as many records as it has lines with a character other
\* than white space, the records carry exactly those lines' numbers (counted
\* in the text as it is, blank lines included) and trimmed text, entries
\* without an accepted extension have none, and the records are in the
\* directory's order of files and, within a file, in the order of lines.
LineRecordsFaithful ==
  readOutcome = "ok" =>
    /\ \A i \in 1..Len(fs.entries) :
         LET e == fs.entries[i]
             recs == RecordsOf(e.name)
         IN IF HasCodeExtension(e.name)
              THEN /\ Len(recs) = Cardinality(InkedLines(e.content))
                   /\ \A j \in 1..Len(recs) :
                        /\ recs[j].lineNumber \in InkedLines(e.content)
                        /\ recs[j].content = InkOfLine(e.content, recs[j].lineNumber)
              ELSE recs = <<>>
    /\ \A p \in 1..Len(codeData) :
         \E i \in 1..Len(fs.entries) : fs.entries[i].name = codeData[p].file
    /\ \A p, q \in 1..Len(codeData) :
         p < q =>
           \/ EntryPos(codeData[p].file) < EntryPos(codeData[q].file)
           \/ /\ codeData[p].file = codeData[q].file
              /\ codeData[p].lineNumber < codeData[q].lineNumber

\* Two files were read, and the first record of one of them is its line 2:
\* the blank line before it was dropped and its number not reused.
TwoFilesWithBlankLine ==
  /\ readOutcome = "ok"
  /\ Len(readLog) = 2
  /\ \E p \in 1..Len(codeData) :
       /\ codeData[p].lineNumber = 2
       /\ RecordsOf(codeData[p].file)[1] = codeData[p]
  /\ \E p, q \in 1..Len(codeData) : codeData[p].file # codeData[q].file

\* C2: in a directory none of whose entries has an accepted extension,
\* readCodeFiles reads no file and returns the empty sequence.
OtherFilesUnread ==
  (fs.ok /\ NoCodeFiles) =>
    /\ readLog = <<>>
    /\ ~Called("readFile")
    /\ readOutcome # "none" => (readOutcome = "ok" /\ codeData = <<>>)

\* readCodeFiles has returned from a directory of two entries, neither with
\* an accepted extension.
TwoOtherFilesListed ==
  /\ fs.ok /\ NoCodeFiles /\ Len(fs.entries) = 2
  /\ readOutcome = "ok"

\* C3: at most one embedding request or database call awaits its answer;
\* every request but the latest has been answered; generateEmbeddings
\* returns one vector per input, the i-th taken from the answer to the
\* request that carried the i-th input; and every call made for the query
\* comes after storeCodeInVectorDB has returned and after all of its calls.
OneCallAtATime ==
  /\ Cardinality({c \in inflight : calls[c].kind \in {"embed", "db"}}) <= 1
  /\ \A i \in 1..(Len(reqLog) - 1) : reqLog[i].answer # Pending
  /\ embeddings # <<>> =>
       /\ Len(embeddings) = Len(texts)
       /\ Len(RequestsBy("store")) = Len(texts)
       /\ \A i \in 1..Len(texts) :
            /\ RequestsBy("store")[i].input = texts[i]
            /\ embeddings[i] = Extract(RequestsBy("store")[i].answer.data)
  /\ queryEmbeddingArr # <<>> =>
       /\ Len(queryEmbeddingArr) = 1
       /\ Len(RequestsBy("search")) = 1
       /\ RequestsBy("search")[1].input = Query
       /\ queryEmbeddingArr[1] = Extract(RequestsBy("search")[1].answer.data)
  /\ \A i \in 1..Len(calls) :
       calls[i].by = "search" =>
         /\ storeOutcome # "none"
         /\ \A j \in i..Len(calls) : calls[j].by = "search"

\* Two lines were embedded and stored, and the query was embedded and run.
TwoLinesStoredThenQueried ==
  /\ pc = "done"
  /\ storeOutcome = "stored" /\ Len(embeddings) = 2
  /\ searchOutcome = "ok"

\* C4: a request answered with a failure status or not at all is the last
\* one its caller makes; generateEmbeddings then returns no vectors; during
\* indexing storeCodeInVectorDB ends without an add call, and during the
\* query searchCode ends without a query call.
FailedRequestAborts ==
  \A i \in 1..Len(reqLog) :
    reqLog[i].answer.kind \in {"status", "network"} =>
      /\ \A j \in (i + 1)..Len(reqLog) : reqLog[j].by # reqLog[i].by
      /\ reqLog[i].by = "store" =>
           /\ embeddings = <<>>
           /\ addCalls = <<>> /\ ~Called("add") /\ db.rows = <<>>
           /\ storeOutcome = "embeddingError"
      /\ reqLog[i].by = "search" =>
           /\ queryEmbeddingArr = <<>>
           /\ queryCalls = <<>> /\ ~Called("getCollection")
           /\ searchOutcome = "embeddingError" /\ matches = <<>>

\* During the indexing of two lines the first request succeeded and the
\* second was answered with a failure status.
SecondRequestFailed ==
  /\ Len(texts) = 2
  /\ Len(RequestsBy("store")) = 2
  /\ RequestsBy("store")[1].answer.kind = "ok"
  /\ RequestsBy("store")[2].answer.kind = "status"
  /\ pc = "done"

\* C5: an answer in a documented shape carrying the vector v is accepted,
\* and what is stored for it, and what is sent as the query embedding for
\* it, is v as a flat sequence of numbers; so answers carrying the same v,
\* in whichever documented shapes, and answers with the same body, give the
\* same vector at indexing time and at query time.
NormalizedAlike ==
  LET stored == RequestsBy("store")
      asked == RequestsBy("search")
  IN /\ \A i \in 1..Len(stored) :
          Documented(stored[i].answer) =>
            /\ Len(addCalls) = 1
            /\ addCalls[1].embeddings[i] = JVec(stored[i].answer.vec)
     /\ \A i \in 1..Len(asked) :
          Documented(asked[i].answer) =>
            /\ Called("getCollection")
            /\ queryCalls # <<>> =>
                 queryCalls[1].queryEmbeddings = <<JVec(asked[i].answer.vec)>>
     /\ (addCalls # <<>> /\ queryCalls # <<>>) =>
          /\ (/\ Documented(stored[1].answer) /\ Documented(asked[1].answer)
              /\ stored[1].answer.vec = asked[1].answer.vec)
               => addCalls[1].embeddings[1] = queryCalls[1].queryEmbeddings[1]
          /\ stored[1].answer.data = asked[1].answer.data
               => addCalls[1].embeddings[1] = queryCalls[1].queryEmbeddings[1]

\* The line's vector came nested two levels deep in a bare array, the
\* query's came in an object, and what was stored is what was asked for.
SameVectorTwoShapes ==
  /\ addCalls # <<>> /\ queryCalls # <<>>
  /\ RequestsBy("store")[1].answer.shape = "nested2"
  /\ RequestsBy("search")[1].answer.shape = "object"
  /\ RequestsBy("store")[1].answer.vec = <<1, 2>>
  /\ RequestsBy("search")[1].answer.vec = <<1, 2>>
  /\ addCalls[1].embeddings[1] = queryCalls[1].queryEmbeddings[1]

\* C6: every add call submits ids, embeddings, documents and metadatas of
\* one length, and at most one add call is made; when the length check
\* finds a difference, storeCodeInVectorDB ends with the mismatch error and
\* no add call is made.
AddOnlyAligned ==
  /\ Len(addCalls) <= 1
  /\ \A c \in 1..Len(addCalls) :
       /\ Len(addCalls[c].ids) = Len(addCalls[c].embeddings)
       /\ Len(addCalls[c].ids) = Len(addCalls[c].documents)
       /\ Len(addCalls[c].ids) = Len(addCalls[c].metadatas)
  /\ Called("add") => Len(addCalls) = 1
  /\ (mismatch \/ storeOutcome = "mismatch") =>
       /\ mismatch /\ storeOutcome = "mismatch"
       /\ addCalls = <<>> /\ ~Called("add") /\ db.rows = <<>>

\* The add call was made with two rows and answered.
TwoRowsAdded ==
  /\ Len(addCalls) = 1
  /\ Len(addCalls[1].ids) = 2
  /\ storeOutcome = "stored"

\* The answer to the latest collection.query call.
LastResult == queryCalls[Len(queryCalls)].result

\* The result makes the formatting raise an error: the metadata array is
\* not there, or it has an entry and that entry is null or the document or
\* distance array is not there.
Unformattable(res) ==
  /\ res.kind = "ok"
  /\ \/ ~res.metadatas.present
     \/ /\ res.metadatas.items # <<>>
        /\ \/ ~res.documents.present
           \/ ~res.distances.present
           \/ \E i \in 1..Len(res.metadatas.items) : res.metadatas.items[i].null

\* The lookup of the collection was answered, and the collection is not
\* there.
CollectionMissing ==
  /\ ~db.exists
  /\ \E i \in 1..Len(calls) : calls[i].op = "getCollection" /\ i \notin inflight

QueryEmbeddingFailed ==
  \E i \in 1..Len(reqLog) :
    reqLog[i].by = "search" /\ reqLog[i].answer.kind \in {"network", "status", "badjson"}

QueryAnsweredBadly ==
  /\ queryCalls # <<>>
  /\ LastResult.kind = "error" \/ Unformattable(LastResult)

\* C7: once the query has been issued, the run ends with searchCode having
\* returned a list to main; and when the collection is missing, the query's
\* embedding request fails, or the store's answer is a failure or cannot be
\* formatted, that list is empty and main reports that nothing matched.
SearchNeverThrows ==
  /\ pc = "done" =>
       /\ searchOutcome \notin {"none", "thrown"}
       /\ mainOutcome = "rejected" => matches # <<>>
  /\ (CollectionMissing \/ QueryEmbeddingFailed \/ QueryAnsweredBadly) =>
       /\ pc = "done"
       /\ matches = <<>>
       /\ mainOutcome = "nomatch"

\* The query's vector was obtained, and the lookup found no collection.
SearchedWithoutCollection ==
  /\ CollectionMissing
  /\ queryEmbeddingArr # <<>>
  /\ pc = "done"

Ascending(ds) == \A i, j \in 1..Len(ds) : i < j => ds[i] <= ds[j]

\* A result of K neighbours: the three arrays are there, of one length, with
\* no null entry.
WellFormed(res) ==
  /\ res.kind = "ok"
  /\ res.metadatas.present /\ res.documents.present /\ res.distances.present
  /\ Len(res.documents.items) = Len(res.metadatas.items)
  /\ Len(res.distances.items) = Len(res.metadatas.items)
  /\ \A i \in 1..Len(res.metadatas.items) : ~res.metadatas.items[i].null

MatchDistances == Tab(LAMBDA i : matches[i].distance.n, Len(matches))

\* C8, as stated: whatever result of K neighbours the store gives, the
\* matches are in ascending order of distance.
MatchesAlwaysAscending ==
  (queryCalls # <<>> /\ WellFormed(LastResult) /\ pc = "done") =>
    Ascending(MatchDistances)

\* C8: for a result of K neighbours, searchCode returns K matches in the
\* store's order, the i-th made of the i-th metadata, document and distance;
\* so the matches are ascending by distance whenever the store's distances
\* are.
StoreOrderKept ==
  (queryCalls # <<>> /\ WellFormed(LastResult) /\ pc = "done") =>
    /\ searchOutcome = "ok"
    /\ Len(matches) = Len(LastResult.metadatas.items)
    /\ \A i \in 1..Len(matches) :
         /\ matches[i].file = LastResult.metadatas.items[i].file
         /\ matches[i].lineNumber = LastResult.metadatas.items[i].lineNumber
         /\ matches[i].content = JStr(LastResult.documents.items[i])
         /\ matches[i].distance = JNum(LastResult.distances.items[i])
    /\ Ascending(LastResult.distances.items) => Ascending(MatchDistances)

\* Two neighbours came back, the nearer one first, and were displayed.
TwoNeighboursNearestFirst ==
  /\ queryCalls # <<>> /\ WellFormed(LastResult) /\ pc = "done"
  /\ LastResult.distances.items = <<0, 1>>
  /\ LastResult.metadatas.items[1] # LastResult.metadatas.items[2]
  /\ Len(matches) = 2
  /\ mainOutcome = "printed"

\* C9, as stated: when the directory or a file cannot be read,
\* readCodeFiles returns the empty sequence and storeCodeInVectorDB returns
\* normally without an embedding request and without any change to the
\* vector database.
UnreadableLeavesDatabaseAlone ==
  readOutcome = "error" =>
    /\ codeData = <<>>
    /\ storeOutcome = "nofiles"
    /\ RequestsBy("store") = <<>>
    /\ addCalls = <<>> /\ db.rows = <<>>
    /\ ~db.created

\* C9: when the directory or a file cannot be read, readCodeFiles returns
\* the empty sequence and storeCodeInVectorDB returns normally without an
\* embedding request and without an add call: no row is added.  The
\* collection itself has been got or created before the directory is read.
UnreadableAddsNothing ==
  readOutcome = "error" =>
    /\ codeData = <<>>
    /\ storeOutcome = "nofiles"
    /\ RequestsBy("store") = <<>>
    /\ addCalls = <<>> /\ ~Called("add") /\ db.rows = <<>>
    /\ db.exists

\* The first file was read and had a line, the second could not be read.
SecondFileUnreadable ==
  /\ readOutcome = "error"
  /\ Len(readLog) = 2
  /\ rcfData # <<>>

\* C10: in every add call, position i holds the id line_<i - 1> (so no two
\* ids are equal), the vector carried by the answer to the request whose
\* input was the content of record i, the file and line number of record i,
\* and the content of record i; and there is a position for every record.
AddArraysAligned ==
  \A c \in 1..Len(addCalls) :
    LET call == addCalls[c]
        reqs == RequestsBy("store")
    IN /\ Len(call.ids) = Len(codeData)
       /\ Len(call.embeddings) = Len(codeData)
       /\ Len(call.metadatas) = Len(codeData)
       /\ Len(call.documents) = Len(codeData)
       /\ Len(reqs) = Len(codeData)
       /\ \A i \in 1..Len(codeData) :
            /\ call.ids[i] = [index |-> i - 1, prefix |-> "line_"]
            /\ reqs[i].input = codeData[i].content
            /\ Documented(reqs[i].answer)
            /\ call.embeddings[i] = JVec(reqs[i].answer.vec)
            /\ call.metadatas[i] =
                 [file |-> codeData[i].file, lineNumber |-> codeData[i].lineNumber]
            /\ call.documents[i] = codeData[i].content
       /\ \A i, j \in 1..Len(call.ids) : i # j => call.ids[i] # call.ids[j]

\* Two lines of different content, given different vectors, were added.
TwoDistinctLinesAdded ==
  /\ Len(addCalls) = 1
  /\ Len(codeData) = 2
  /\ codeData[1].content # codeData[2].content
  /\ addCalls[1].embeddings[1] # addCalls[1].embeddings[2]

=============================================================================
